---- MODULE Spec2Model ----
(***************************************************************************)
(* random_data_loader: the batched loading pipeline of                     *)
(* internal/core/dataloader/data-loader.go.                                *)
(*                                                                         *)
(* One LoadData call: the caller builds the insert statement, starts the   *)
(* row producer (generateRows) and NumGoroutines workers (Load), and waits *)
(* on the WaitGroup.  The producer and the workers share one channel of    *)
(* capacity batchSize.  The database and the context are the environment:  *)
(* a database call may fail, the context may be canceled at any moment.    *)
(*                                                                         *)
(* Text (names, the statement, declared types) is a sequence of            *)
(* one-character strings, so that strings.Join, strings.Replace,           *)
(* strings.Split and the like are computed on characters.                  *)
(*                                                                         *)
(* The registry of generators is filled before LoadData by                 *)
(* SetDefaultGenerators and SetGenerator (set_generators.go); a generator  *)
(* is its configuration, and int64 values are kept in 64 bits.             *)
(***************************************************************************)
EXTENDS Integers, Sequences, FiniteSets, Bags, TLC

\* ------------------------------------------------------------------ bounds
MaxRows == 2
MaxBatch == 2
MaxCap == 1
MaxWorkers == 2
MaxFailures == 1
MaxCols == 3
StmtRows == 1
MaxCalls == 2

Workers == 1..MaxWorkers

VARIABLES
  TableStruct,   \* l.TableStruct: [Name, Columns], Columns a sequence of names
  Generators,    \* l.Generators: the set of column names that have a binding
  DBType,        \* l.DBType
  BatchSize,     \* l.BatchSize
  NumGoroutines, \* l.NumGoroutines
  numRows,       \* LoadData's argument
  batchSize,     \* LoadData's argument: the capacity of the channel
  faultBudget,   \* how many calls the database may fail for its own reasons
  ldPc,          \* LoadData: "build", "wait", "returned"
  columnNames,   \* LoadData's local columnNames
  placeholders,  \* LoadData's local placeholders
  query,         \* LoadData's local query
  started,       \* workers started by the loop "for range l.NumGoroutines"
  wg,            \* the WaitGroup's counter
  ldErr,         \* what LoadData returned: "none" (not yet), "nil", "error"
  ctxDone,       \* ctx.Done() is closed
  prodPc,        \* producer: "idle", "loop", "send", "done"
  prodI,         \* iterations begun of "for range numRows"
  values,        \* the producer's local values (the row about to be sent)
  published,     \* rows sent on the channel so far
  ch,            \* the channel's buffer
  chClosed,      \* close(ch) was called
  wPc,           \* worker: "idle", "begin", "prepare", "recv", "exec", "commit",
                 \*   "rebegin", "reprepare", "final", "deferred", "done", "panic"
  cur,           \* worker: the row taken from the channel
  count,         \* worker: the local count
  txId,          \* worker: the transaction tx points to (0: nil)
  txOpen,        \* worker: its transactions neither committed nor rolled back
  pending,       \* worker: rows executed in the transaction tx points to
  commitLog,     \* worker: its successful commits, [rows, final]
  failedAt,      \* worker: the call whose error it met, "none" when none
  executed,      \* bag of row ids whose ExecContext succeeded
  dropped,       \* rows taken from the channel and never executed
  table,         \* the destination table: bag of committed row ids
  nFail,         \* database calls that failed for a reason other than ctx
  crashed,       \* a goroutine panicked: the process is gone
  DataType,      \* l.TableStruct.Columns[i].DataType, by column name
  Indexes,       \* l.TableStruct.Indexes: sequence of [Columns, IsPrimary]
  ForeignKeys,   \* l.TableStruct.ForeignKeys: sequence of [Columns]
  bindings,      \* l.Generators' values: the generator bound to each name
  calls,         \* calls of SetDefaultGenerators made so far
  overridden,    \* the names SetGenerator was called for
  firstBindings, \* the registry as the first SetDefaultGenerators left it
  lastValue,     \* the last GenerateValue call: [col, val]
  received,      \* worker: rows it has taken from the channel
  jsStack,       \* generateObject: the calls in progress, [depth, fields, items]
  jsPc,          \* JSONGenerator.GenerateValue: "idle", "run", "done"
  jsLast         \* generateObject: what it produced last, [what, depth]

vars == <<TableStruct, Generators, DBType, BatchSize, NumGoroutines, numRows,
          batchSize, faultBudget, ldPc, columnNames, placeholders, query, started, wg, ldErr,
          ctxDone, prodPc, prodI, values, published, ch, chClosed,
          wPc, cur, count, txId, txOpen, pending, commitLog, failedAt, executed,
          dropped, table, nFail, crashed, DataType, Indexes, ForeignKeys,
          bindings, calls, overridden, firstBindings, lastValue, received,
          jsStack, jsPc, jsLast>>

schemaVars == <<DataType, Indexes, ForeignKeys>>
genVars == <<bindings, calls, overridden, firstBindings, lastValue>>
jsonVars == <<jsStack, jsPc, jsLast>>
config == <<TableStruct, Generators, DBType, BatchSize, NumGoroutines, numRows,
            batchSize, faultBudget, schemaVars, genVars, jsonVars>>
ldVars == <<ldPc, columnNames, placeholders, query, started, wg, ldErr>>
prodVars == <<prodPc, prodI, values, published>>
chVars == <<ch, chClosed>>
wVars == <<wPc, cur, count, txId, txOpen, pending, commitLog, failedAt>>
dbVars == <<executed, dropped, table, nFail>>

\* ------------------------------------------------------------------- text
RECURSIVE Join(_, _)
\* strings.Join(elems, sep)
Join(elems, sep) ==
  IF Len(elems) = 0 THEN <<>>
  ELSE IF Len(elems) = 1 THEN elems[1]
  ELSE elems[1] \o sep \o Join(Tail(elems), sep)

Digit(d) == <<"0", "1", "2", "3", "4", "5", "6", "7", "8", "9">>[d + 1]

RECURSIVE Itoa(_)
\* fmt's %d of a non-negative int
Itoa(n) == IF n < 10 THEN <<Digit(n)>> ELSE Itoa(n \div 10) \o <<Digit(n % 10)>>

RECURSIVE IndexFrom(_, _, _)
\* the least i >= from with s[i] = c, 0 when there is none
IndexFrom(s, c, from) ==
  IF from > Len(s) THEN 0
  ELSE IF s[from] = c THEN from
  ELSE IndexFrom(s, c, from + 1)

\* strings.Replace(s, old, new, 1) for a one-character old
ReplaceFirst(s, old, new) ==
  LET i == IndexFrom(s, old, 1)
  IN IF i = 0 THEN s
     ELSE SubSeq(s, 1, i - 1) \o new \o SubSeq(s, i + 1, Len(s))

INSERT_INTO == <<"I", "N", "S", "E", "R", "T", " ", "I", "N", "T", "O", " ">>
VALUES_ == <<")", " ", "V", "A", "L", "U", "E", "S", " ", "(">>
CommaSp == <<",", " ">>

\* data-loader.go 47-54: the columns that have a generator, in column order
RECURSIVE EligibleColumns(_, _)
EligibleColumns(cols, gens) ==
  IF Len(cols) = 0 THEN <<>>
  ELSE (IF cols[1] \in gens THEN <<cols[1]>> ELSE <<>>)
       \o EligibleColumns(Tail(cols), gens)

\* data-loader.go 53: one "?" per eligible column
Placeholders(names) == [i \in 1..Len(names) |-> <<"?">>]

\* data-loader.go 56-61: fmt.Sprintf("INSERT INTO %s (%s) VALUES (%s)", ...)
Sprintf(name, names, phs) ==
  INSERT_INTO \o name \o <<" ", "(">> \o Join(names, CommaSp)
  \o VALUES_ \o Join(phs, CommaSp) \o <<")">>

RECURSIVE ReplaceLoop(_, _, _)
\* data-loader.go 65-67: for i := 1; i <= len(placeholders); i++ { Replace }
ReplaceLoop(q, i, n) ==
  IF i > n THEN q
  ELSE ReplaceLoop(ReplaceFirst(q, "?", <<"$">> \o Itoa(i)), i + 1, n)

\* data-loader.go 56-68: the statement LoadData hands to the workers
BuildQuery(dbType, name, names, phs) ==
  LET q == Sprintf(name, names, phs)
  IN IF dbType = "postgres" THEN ReplaceLoop(q, 1, Len(phs)) ELSE q

\* a producer that does not skip the columns without a generator
GenerateValues_NoSkip(cols, gens) == [i \in 1..Len(cols) |-> [by |-> cols[i]]]

\* data-loader.go 85-92: one value per column that has a generator; a value
\* is represented by the name of the column whose generator produced it
RECURSIVE GenerateValues(_, _)
GenerateValues(cols, gens) ==
  IF Len(cols) = 0 THEN <<>>
  ELSE (IF cols[1] \in gens THEN <<[by |-> cols[1]]>> ELSE <<>>)
       \o GenerateValues(Tail(cols), gens)

\* ------------------------------------------------- declared types as text
Upper ==
  <<"A", "B", "C", "D", "E", "F", "G", "H", "I", "J", "K", "L", "M", "N", "O",
    "P", "Q", "R", "S", "T", "U", "V", "W", "X", "Y", "Z">>
Lower ==
  <<"a", "b", "c", "d", "e", "f", "g", "h", "i", "j", "k", "l", "m", "n", "o",
    "p", "q", "r", "s", "t", "u", "v", "w", "x", "y", "z">>

\* set_generators.go 18: strings.ToLower
ToLower(s) ==
  [i \in 1..Len(s) |->
     IF \E k \in 1..Len(Upper) : Upper[k] = s[i]
     THEN Lower[CHOOSE k \in 1..Len(Upper) : Upper[k] = s[i]]
     ELSE s[i]]

\* strings.Contains(s, substr)
Contains(s, substr) ==
  \E i \in 1..(Len(s) - Len(substr) + 1) :
    SubSeq(s, i, i + Len(substr) - 1) = substr

\* strings.Index(s, c) for a one-character c: the offset from 0, -1 when none
Index(s, c) == IndexFrom(s, c, 1) - 1

\* strings.LastIndex(s, c) for a one-character c
LastIndex(s, c) ==
  IF \E i \in 1..Len(s) : s[i] = c
  THEN (CHOOSE i \in 1..Len(s) : s[i] = c /\ \A j \in (i + 1)..Len(s) : s[j] # c) - 1
  ELSE -1

\* the slice s[lo:hi], offsets from 0
Slice(s, lo, hi) == SubSeq(s, lo + 1, hi)

RECURSIVE Split(_, _)
\* strings.Split(s, sep) for a one-character sep
Split(s, sep) ==
  LET i == Index(s, sep)
  IN IF i = -1 THEN <<s>>
     ELSE <<Slice(s, 0, i)>> \o Split(Slice(s, i + 1, Len(s)), sep)

RECURSIVE TrimLeft(_, _)
TrimLeft(s, cutset) ==
  IF Len(s) > 0 /\ s[1] \in cutset THEN TrimLeft(Tail(s), cutset) ELSE s

RECURSIVE TrimRight(_, _)
TrimRight(s, cutset) ==
  IF Len(s) > 0 /\ s[Len(s)] \in cutset
  THEN TrimRight(SubSeq(s, 1, Len(s) - 1), cutset)
  ELSE s

\* strings.Trim(s, cutset)
Trim(s, cutset) == TrimRight(TrimLeft(s, cutset), cutset)

\* strings.TrimSpace(s)
TrimSpace(s) == Trim(s, {" "})

Digits == <<"0", "1", "2", "3", "4", "5", "6", "7", "8", "9">>
IsDigit(c) == \E d \in 1..Len(Digits) : Digits[d] = c
DigitValue(c) == (CHOOSE d \in 1..Len(Digits) : Digits[d] = c) - 1

RECURSIVE DecimalValue(_)
DecimalValue(s) ==
  IF Len(s) = 0 THEN 0
  ELSE 10 * DecimalValue(SubSeq(s, 1, Len(s) - 1)) + DigitValue(s[Len(s)])

\* strconv.Atoi(s): an optional sign, then one or more digits, nothing else
Atoi(s) ==
  LET signed == Len(s) > 0 /\ s[1] \in {"+", "-"}
      body == IF signed THEN Tail(s) ELSE s
  IN IF Len(body) > 0 /\ \A i \in 1..Len(body) : IsDigit(body[i])
     THEN [err |-> FALSE,
           n |-> IF signed /\ s[1] = "-" THEN 0 - DecimalValue(body)
                 ELSE DecimalValue(body)]
     ELSE [err |-> TRUE, n |-> 0]

\* the built-in min of two ints
Min(a, b) == IF a < b THEN a ELSE b

\* ------------------------------------------------------ int64 arithmetic
\* An int64 is four 16-bit limbs, the most significant first, in two's
\* complement; the sums wrap as Go's do
Limbs(n) == <<0, 0, n \div 65536, n % 65536>>

I64Add(a, b) ==
  LET s4 == a[4] + b[4]
      s3 == a[3] + b[3] + s4 \div 65536
      s2 == a[2] + b[2] + s3 \div 65536
      s1 == a[1] + b[1] + s2 \div 65536
  IN <<s1 % 65536, s2 % 65536, s3 % 65536, s4 % 65536>>

I64Neg(a) ==
  I64Add(<<65535 - a[1], 65535 - a[2], 65535 - a[3], 65535 - a[4]>>, Limbs(1))

I64Sub(a, b) == I64Add(a, I64Neg(b))

I64Negative(a) == a[1] >= 32768

\* a < b as signed 64-bit integers
I64Less(a, b) ==
  IF I64Negative(a) # I64Negative(b) THEN I64Negative(a)
  ELSE \E i \in 1..4 : a[i] < b[i] /\ \A j \in 1..(i - 1) : a[j] = b[j]

I64LessEq(a, b) == a = b \/ I64Less(a, b)

\* the int64 of an integer literal between -2147483647 and 2147483647
I64(n) == IF n >= 0 THEN Limbs(n) ELSE I64Neg(Limbs(0 - n))

MaxInt64 == <<32767, 65535, 65535, 65535>>
MinInt64 == <<32768, 0, 0, 0>>


\* ------------------------------------------ the words of set_generators.go
\* the string literals of SetDefaultGenerators and parseEnumValues
Word ==
  [char |-> <<"c", "h", "a", "r">>,
   varchar |-> <<"v", "a", "r", "c", "h", "a", "r">>,
   text |-> <<"t", "e", "x", "t">>,
   tiny |-> <<"t", "i", "n", "y">>,
   medium |-> <<"m", "e", "d", "i", "u", "m">>,
   long |-> <<"l", "o", "n", "g">>,
   tinyint |-> <<"t", "i", "n", "y", "i", "n", "t">>,
   smallint |-> <<"s", "m", "a", "l", "l", "i", "n", "t">>,
   mediumint |-> <<"m", "e", "d", "i", "u", "m", "i", "n", "t">>,
   int |-> <<"i", "n", "t">>,
   integer |-> <<"i", "n", "t", "e", "g", "e", "r">>,
   bigint |-> <<"b", "i", "g", "i", "n", "t">>,
   unsigned |-> <<"u", "n", "s", "i", "g", "n", "e", "d">>,
   float |-> <<"f", "l", "o", "a", "t">>,
   real |-> <<"r", "e", "a", "l">>,
   double |-> <<"d", "o", "u", "b", "l", "e">>,
   decimal |-> <<"d", "e", "c", "i", "m", "a", "l">>,
   numeric |-> <<"n", "u", "m", "e", "r", "i", "c">>,
   bool |-> <<"b", "o", "o", "l">>,
   boolean |-> <<"b", "o", "o", "l", "e", "a", "n">>,
   date |-> <<"d", "a", "t", "e">>,
   time |-> <<"t", "i", "m", "e">>,
   timestamp |-> <<"t", "i", "m", "e", "s", "t", "a", "m", "p">>,
   datetime |-> <<"d", "a", "t", "e", "t", "i", "m", "e">>,
   with_time_zone |-> <<"w", "i", "t", "h", " ", "t", "i", "m", "e", " ", "z", "o", "n", "e">>,
   timestamptz |-> <<"t", "i", "m", "e", "s", "t", "a", "m", "p", "t", "z">>,
   enum |-> <<"e", "n", "u", "m">>,
   set |-> <<"s", "e", "t">>,
   json |-> <<"j", "s", "o", "n">>,
   jsonb |-> <<"j", "s", "o", "n", "b">>,
   uuid |-> <<"u", "u", "i", "d">>,
   inet |-> <<"i", "n", "e", "t">>,
   cidr |-> <<"c", "i", "d", "r">>,
   macaddr |-> <<"m", "a", "c", "a", "d", "d", "r">>,
   bit |-> <<"b", "i", "t">>,
   varbit |-> <<"v", "a", "r", "b", "i", "t">>,
   blob |-> <<"b", "l", "o", "b">>,
   binary |-> <<"b", "i", "n", "a", "r", "y">>,
   bytea |-> <<"b", "y", "t", "e", "a">>,
   point |-> <<"p", "o", "i", "n", "t">>,
   geometry |-> <<"g", "e", "o", "m", "e", "t", "r", "y">>,
   linestring |-> <<"l", "i", "n", "e", "s", "t", "r", "i", "n", "g">>,
   polygon |-> <<"p", "o", "l", "y", "g", "o", "n">>,
   money |-> <<"m", "o", "n", "e", "y">>,
   interval |-> <<"i", "n", "t", "e", "r", "v", "a", "l">>,
   enum_value1 |-> <<"e", "n", "u", "m", "_", "v", "a", "l", "u", "e", "1">>,
   enum_value2 |-> <<"e", "n", "u", "m", "_", "v", "a", "l", "u", "e", "2">>]

\* declared types a column can have: each case of the dispatch, plain,
\* parameterised and upper-case spellings
TypePool ==
  {<<"i", "n", "t">>,
   <<"I", "N", "T">>,
   <<"i", "n", "t", "(", "1", "1", ")">>,
   <<"i", "n", "t", "e", "g", "e", "r">>,
   <<"i", "n", "t", " ", "u", "n", "s", "i", "g", "n", "e", "d">>,
   <<"t", "i", "n", "y", "i", "n", "t">>,
   <<"t", "i", "n", "y", "i", "n", "t", " ", "u", "n", "s", "i", "g", "n", "e", "d">>,
   <<"s", "m", "a", "l", "l", "i", "n", "t">>,
   <<"s", "m", "a", "l", "l", "i", "n", "t", " ", "u", "n", "s", "i", "g", "n", "e", "d">>,
   <<"m", "e", "d", "i", "u", "m", "i", "n", "t">>,
   <<"m", "e", "d", "i", "u", "m", "i", "n", "t", " ", "u", "n", "s", "i", "g", "n", "e", "d">>,
   <<"b", "i", "g", "i", "n", "t">>,
   <<"b", "i", "g", "i", "n", "t", " ", "u", "n", "s", "i", "g", "n", "e", "d">>,
   <<"v", "a", "r", "c", "h", "a", "r">>,
   <<"v", "a", "r", "c", "h", "a", "r", "(", "2", "0", ")">>,
   <<"v", "a", "r", "c", "h", "a", "r", " ", "(", "2", "0", ")">>,
   <<"c", "h", "a", "r", " ", "(", "2", "5", "5", ")">>,
   <<"t", "e", "x", "t">>,
   <<"t", "e", "x", "t", " ", "l", "o", "n", "g">>,
   <<"f", "l", "o", "a", "t">>,
   <<"d", "e", "c", "i", "m", "a", "l", " ", "(", "1", "0", ",", " ", "3", ")">>,
   <<"b", "o", "o", "l", "e", "a", "n">>,
   <<"d", "a", "t", "e">>,
   <<"t", "i", "m", "e">>,
   <<"t", "i", "m", "e", "s", "t", "a", "m", "p", " ", "w", "i", "t", "h", " ", "t", "i", "m", "e", " ", "z", "o", "n", "e">>,
   <<"d", "a", "t", "e", "t", "i", "m", "e">>,
   <<"e", "n", "u", "m", "(", "'", "a", "'", ",", "'", "b", "'", ",", "'", "c", "'", ")">>,
   <<"e", "n", "u", "m", " ", "(", "'", "a", "'", ",", "'", "b", "'", ",", "'", "c", "'", ")">>,
   <<"e", "n", "u", "m">>,
   <<"s", "e", "t", " ", "(", "'", "x", "'", ",", " ", "\"", "y", "\"", ")">>,
   <<"j", "s", "o", "n">>,
   <<"u", "u", "i", "d">>,
   <<"i", "n", "e", "t">>,
   <<"m", "a", "c", "a", "d", "d", "r">>,
   <<"b", "i", "t", " ", "(", "7", "0", ")">>,
   <<"b", "l", "o", "b">>,
   <<"b", "i", "n", "a", "r", "y", " ", "l", "o", "n", "g">>,
   <<"p", "o", "i", "n", "t">>,
   <<"m", "o", "n", "e", "y">>,
   <<"i", "n", "t", "e", "r", "v", "a", "l">>,
   <<"s", "e", "r", "i", "a", "l">>}

\* ------------------------------------------------------- the generators
\* unnamed/part_001: the constructors; a generator is its configuration
StringGenerator(length) == [kind |-> "string", Length |-> length]
IntGenerator(min, max) == [kind |-> "int", Min |-> min, Max |-> max]
FloatGenerator(min, max, prec) ==
  [kind |-> "float", Min |-> min, Max |-> max, Prec |-> prec]
BoolGenerator == [kind |-> "bool"]
DateGenerator(start, end) == [kind |-> "date", Start |-> start, End |-> end]
TimestampGenerator(start, end, withTZ) ==
  [kind |-> "timestamp", Start |-> start, End |-> end, WithTZ |-> withTZ]
EnumGenerator(vals) == [kind |-> "enum", Values |-> vals]
JSONGenerator(fields, depth, arrayItems, format) ==
  [kind |-> "json", Fields |-> fields, Depth |-> depth,
   ArrayItems |-> arrayItems, Format |-> format]
UUIDGenerator == [kind |-> "uuid"]
IPGenerator(ipv6) == [kind |-> "ip", IPv6 |-> ipv6]
BitStringGenerator(length) == [kind |-> "bitstring", Length |-> length]
BinaryGenerator(length) == [kind |-> "binary", Length |-> length]
GeometryGenerator(geomType) == [kind |-> "geometry", Type |-> geomType]
MoneyGenerator(min, max) == [kind |-> "money", Min |-> min, Max |-> max]
IntervalGenerator(minHours, maxHours) ==
  [kind |-> "interval", MinHours |-> minHours, MaxHours |-> maxHours]

\* a generator of the caller's own, installed with SetGenerator
CustomGenerator == [kind |-> "custom"]

\* the column is left without an entry
NoBinding == [kind |-> "none"]

\* a key check that takes any member of a primary key for the key
IsSoleMember_AnyMember(cols, name) == \E k \in 1..Len(cols) : cols[k] = name

\* set_generators.go 23: len(index.Columns) == 1 && index.Columns[0] == name
IsSoleMember(cols, name) == Len(cols) = 1 /\ cols[1] = name

\* set_generators.go 21-31: a single-column primary key of an "int" type
IsPrimaryAutoIncrement(name, dataType) ==
  \E i \in 1..Len(Indexes) :
    /\ Indexes[i].IsPrimary
    /\ IsSoleMember(Indexes[i].Columns, name)
    /\ Contains(dataType, Word.int)

\* set_generators.go 39-50: the column is a local column of a foreign key
IsForeignKey(name) ==
  \E i \in 1..Len(ForeignKeys) :
    \E k \in 1..Len(ForeignKeys[i].Columns) : ForeignKeys[i].Columns[k] = name

\* an integer generator for foreign keys that starts at 0
ForeignKeyIntGenerator_FromZero == IntGenerator(I64(0), I64(1000))

\* set_generators.go 56: NewIntGenerator(1, 1000)
ForeignKeyIntGenerator == IntGenerator(I64(1), I64(1000))

\* set_generators.go 55-59: the binding of a foreign-key column, none when
\* the type holds neither "int" nor "char" nor "text"
ForeignKeyGenerator(dataType) ==
  IF Contains(dataType, Word.int) THEN ForeignKeyIntGenerator
  ELSE IF Contains(dataType, Word.char) \/ Contains(dataType, Word.text)
       THEN StringGenerator(8)
       ELSE NoBinding

\* set_generators.go 68-75 (and 188-195): the size between the parentheses,
\* capped, the default when there is none or it is no number
ParenLength(dataType, default, cap) ==
  LET start == Index(dataType, "(")
      end == IF start = -1 THEN -1
             ELSE Index(Slice(dataType, start, Len(dataType)), ")")
      size == IF end = -1 THEN [err |-> TRUE, n |-> 0]
              ELSE Atoi(Slice(dataType, start + 1, start + end))
  IN IF size.err THEN default ELSE Min(size.n, cap)

\* set_generators.go 131-142: the second number between the parentheses
ParenPrecision(dataType) ==
  LET start == Index(dataType, "(")
      end == IF start = -1 THEN -1
             ELSE Index(Slice(dataType, start, Len(dataType)), ")")
      parts == IF end = -1 THEN <<>>
               ELSE Split(Slice(dataType, start + 1, start + end), ",")
      p == IF Len(parts) > 1 THEN Atoi(TrimSpace(parts[2]))
           ELSE [err |-> TRUE, n |-> 0]
  IN IF p.err THEN 2 ELSE p.n

\* set_generators.go 80-89, 200-209: the size hint of a text or binary type
SizeHint(dataType, tiny, medium, long, default) ==
  IF Contains(dataType, Word.tiny) THEN tiny
  ELSE IF Contains(dataType, Word.medium) THEN medium
  ELSE IF Contains(dataType, Word.long) THEN long
  ELSE default

\* set_generators.go 253-258: the values between the commas, without quotes
\* and spaces, the empty ones left out
RECURSIVE CleanValues(_)
CleanValues(rawValues) ==
  IF Len(rawValues) = 0 THEN <<>>
  ELSE LET cleanVal == Trim(TrimSpace(rawValues[1]), {"'", "\""})
       IN (IF cleanVal # <<>> THEN <<cleanVal>> ELSE <<>>)
          \o CleanValues(Tail(rawValues))

EnumFallback == <<Word.enum_value1, Word.enum_value2>>

\* set_generators.go 237-266: parseEnumValues
parseEnumValues(dataType) ==
  LET start == Index(dataType, "(")
      end == LastIndex(dataType, ")")
  IN IF start = -1 \/ end = -1 \/ start >= end THEN EnumFallback
     ELSE LET vals == CleanValues(Split(Slice(dataType, start + 1, end), ","))
          IN IF Len(vals) = 0 THEN EnumFallback ELSE vals

\* set_generators.go 93-125: the range of an integer family
IntRange(dataType, umax, smin, smax) ==
  IF Contains(dataType, Word.unsigned) THEN IntGenerator(I64(0), umax)
  ELSE IntGenerator(smin, smax)

\* set_generators.go 64-230: the dispatch on the first token of the type
TypeGenerator(declared, dataType) ==
  LET token == Split(dataType, " ")[1]
  IN CASE token \in {Word.char, Word.varchar} ->
            StringGenerator(ParenLength(dataType, 10, 100))
       [] token = Word.text -> StringGenerator(SizeHint(dataType, 50, 200, 500, 100))
       [] token = Word.tinyint -> IntRange(dataType, I64(255), I64(-128), I64(127))
       [] token = Word.smallint ->
            IntRange(dataType, I64(65535), I64(-32768), I64(32767))
       [] token = Word.mediumint ->
            IntRange(dataType, I64(16777215), I64(-8388608), I64(8388607))
       [] token \in {Word.int, Word.integer} ->
            IntRange(dataType, I64(2147483647),
                     I64Sub(I64(-2147483647), I64(1)), I64(2147483647))
       [] token = Word.bigint -> IntRange(dataType, MaxInt64, MinInt64, MaxInt64)
       [] token \in {Word.float, Word.real} -> FloatGenerator(-1000, 1000, 2)
       [] token \in {Word.double, Word.decimal, Word.numeric} ->
            FloatGenerator(-10000, 10000, ParenPrecision(dataType))
       [] token \in {Word.bool, Word.boolean} -> BoolGenerator
       [] token = Word.date -> DateGenerator(<<2000, 1, 1>>, <<2023, 12, 31>>)
       [] token = Word.time ->
            IF ~Contains(dataType, Word.timestamp) THEN StringGenerator(8)
            ELSE NoBinding
       [] token \in {Word.timestamp, Word.datetime} ->
            TimestampGenerator(<<2000, 1, 1, 0, 0, 0>>, <<2023, 12, 31, 23, 59, 59>>,
                               Contains(dataType, Word.with_time_zone)
                               \/ Contains(dataType, Word.timestamptz))
       [] token \in {Word.enum, Word.set} -> EnumGenerator(parseEnumValues(declared))
       [] token \in {Word.json, Word.jsonb} -> JSONGenerator(3, 2, 3, DBType)
       [] token = Word.uuid -> UUIDGenerator
       [] token \in {Word.inet, Word.cidr} -> IPGenerator(FALSE)
       [] token = Word.macaddr -> StringGenerator(17)
       [] token \in {Word.bit, Word.varbit} ->
            BitStringGenerator(ParenLength(dataType, 8, 64))
       [] token \in {Word.blob, Word.binary, Word.bytea} ->
            BinaryGenerator(SizeHint(dataType, 100, 1000, 10000, 500))
       [] token \in {Word.point, Word.geometry} ->
            GeometryGenerator(IF Contains(dataType, Word.linestring) THEN "linestring"
                              ELSE IF Contains(dataType, Word.polygon) THEN "polygon"
                              ELSE "point")
       [] token = Word.money -> MoneyGenerator(0, 10000)
       [] token = Word.interval -> IntervalGenerator(0, 100)
       [] OTHER -> StringGenerator(10)

\* set_generators.go 17-230: what one iteration of the loop binds to the
\* column: nothing for an auto-increment key, the foreign-key generator for
\* a foreign-key column, else the generator of the type
DefaultGenerator(name) ==
  LET dataType == ToLower(DataType[name])
  IN IF IsPrimaryAutoIncrement(name, dataType) THEN NoBinding
     ELSE IF IsForeignKey(name) THEN ForeignKeyGenerator(dataType)
     ELSE TypeGenerator(DataType[name], dataType)

\* a map assignment that drops the key when it is already there
Assign_Toggle(reg, name, g) ==
  IF name \in DOMAIN reg THEN [n \in DOMAIN reg \ {name} |-> reg[n]]
  ELSE [n \in DOMAIN reg \cup {name} |-> IF n = name THEN g ELSE reg[n]]

\* a map assignment that keeps the entry that is already there
Assign_KeepFirst(reg, name, g) ==
  [n \in DOMAIN reg \cup {name} |-> IF n \in DOMAIN reg THEN reg[n] ELSE g]

\* set_generators.go 10, 56-229: l.Generators[name] = g
Assign(reg, name, g) ==
  [n \in DOMAIN reg \cup {name} |-> IF n = name THEN g ELSE reg[n]]

RECURSIVE SelectAll(_, _)
\* set_generators.go 17-231: the loop over the columns, in column order
SelectAll(cols, reg) ==
  IF Len(cols) = 0 THEN reg
  ELSE LET g == DefaultGenerator(cols[1])
       IN SelectAll(Tail(cols),
                    IF g.kind = "none" THEN reg ELSE Assign(reg, cols[1], g))

\* the registry of a loader that has no entry
EmptyRegistry == [n \in {} |-> NoBinding]

\* unnamed/part_001 57-59 (math/rand/v2): rand.IntN(n) panics for n <= 0 and
\* returns some r with 0 <= r < n otherwise; the least, the next and the
\* greatest r stand for all of them. An empty set is the panic
IntN(n) ==
  IF I64LessEq(n, I64(0)) THEN {}
  ELSE {I64(0), I64Sub(n, I64(1))} \cup (IF I64Less(I64(1), n) THEN {I64(1)} ELSE {})

Panic == [kind |-> "panic"]

\* unnamed/part_001: GenerateValue of each generator, as the set of what a
\* call can return. Characters and digits drawn at random are not modelled:
\* a string is its length
GenerateValueOf(g) ==
  CASE g.kind = "string" ->
         IF g.Length < 0 THEN {Panic} ELSE {[kind |-> "string", Length |-> g.Length]}
    [] g.kind = "int" ->
         LET n == I64Add(I64Sub(g.Max, g.Min), I64(1))
         IN IF IntN(n) = {} THEN {Panic}
            ELSE {[kind |-> "int", v |-> I64Add(g.Min, r)] : r \in IntN(n)}
    [] g.kind = "enum" ->
         IF Len(g.Values) = 0 THEN {Panic}
         ELSE {[kind |-> "text", s |-> g.Values[i]] : i \in 1..Len(g.Values)}
    [] g.kind = "bool" -> {[kind |-> "bool", b |-> b] : b \in BOOLEAN}
    [] g.kind = "bitstring" ->
         IF g.Length < 0 THEN {Panic} ELSE {[kind |-> "bits", Length |-> g.Length]}
    [] g.kind = "binary" ->
         IF g.Length < 0 THEN {Panic} ELSE {[kind |-> "bytes", Length |-> 0]}
    [] OTHER -> {[kind |-> g.kind]}

\* ------------------------------------------------------------ the program
NoRow == [id |-> 0, vals |-> <<>>]

\* data-loader.go 84: for range numRows
MoreRows(i) == i < numRows

\* a buffer that takes one row less than its capacity
CanSend_OffByOne(c) == Len(c) < batchSize - 1

\* data-loader.go 82, 97: a send on a channel made with capacity batchSize
\* goes into the buffer while the buffer has room
CanSend(c) == Len(c) < batchSize

\* a receive that leaves the row in the buffer
AfterRecv_Peek(c) == c

\* data-loader.go 122: a receive takes the head of the buffer
AfterRecv(c) == Tail(c)

\* a batch that is full at the size given to LoadData
BatchReached_Argument(c) == c >= batchSize

\* a batch that is committed one row late
BatchReached_Late(c) == c > BatchSize

\* data-loader.go 135: if count >= l.BatchSize
BatchReached(c) == c >= BatchSize

\* a final commit made only for a full batch
FinalCommitGuard_FullBatchOnly(c) == c >= BatchSize

\* the final commit under the guard "if count > 0"
FinalCommitGuard_NonEmpty(c) == c > 0

\* data-loader.go 157-161: the guard "if count > 0" of the final commit is
\* commented out: the final commit is unconditional
FinalCommitGuard(c) == TRUE

\* a wait that ends while one worker is still running
WaitDone_OneLeft == wg <= 1

\* data-loader.go 76: wg.Wait() returns when the counter is zero
WaitDone == wg = 0

\* a LoadData that reports a worker's failure
LoadDataResult_Propagates ==
  IF \E w \in Workers : failedAt[w] # "none" THEN "error" ELSE "nil"

\* data-loader.go 78: return nil
LoadDataResult == "nil"

\* database/sql as called from data-loader.go: a call that is given ctx fails
\* once ctx is canceled (Tx.Commit checks the context of BeginTx); any call
\* may also fail for a reason of the database's own
DbOutcomes ==
  IF ctxDone THEN {FALSE}
  ELSE IF nFail < faultBudget THEN {TRUE, FALSE}
  ELSE {TRUE}

Failures(ok) == IF ok \/ ctxDone THEN nFail ELSE nFail + 1

\* the state after NewTableDataLoader and the registry's set-up, before
\* LoadData's first statement
InitRest ==
  /\ ldPc = "build"
  /\ columnNames = <<>>
  /\ placeholders = <<>>
  /\ query = <<>>
  /\ started = 0
  /\ wg = 0
  /\ ldErr = "none"
  /\ ctxDone = FALSE
  /\ prodPc = "idle"
  /\ prodI = 0
  /\ values = <<>>
  /\ published = 0
  /\ ch = <<>>
  /\ chClosed = FALSE
  /\ wPc = [w \in Workers |-> "idle"]
  /\ cur = [w \in Workers |-> NoRow]
  /\ count = [w \in Workers |-> 0]
  /\ txId = [w \in Workers |-> 0]
  /\ txOpen = [w \in Workers |-> {}]
  /\ pending = [w \in Workers |-> <<>>]
  /\ commitLog = [w \in Workers |-> <<>>]
  /\ failedAt = [w \in Workers |-> "none"]
  /\ received = [w \in Workers |-> 0]
  /\ jsStack = <<>>
  /\ jsPc = "idle"
  /\ jsLast = [what |-> "none", depth |-> 0]
  /\ executed = EmptyBag
  /\ dropped = {}
  /\ table = EmptyBag
  /\ nFail = 0
  /\ crashed = FALSE

\* common_test.go 37-47, 50-60: the test table, cut to three columns: id is
\* the auto-increment key and has no generator
TestTable == [Name |-> <<"t">>, Columns |-> <<<<"i", "d">>, <<"a">>, <<"b">>>>]

\* common_test.go 39-41: id INT AUTO_INCREMENT PRIMARY KEY, int_col INT,
\* float_col FLOAT, as the parser reports them (mysql-parser.go 49)
TestTypes ==
  [c \in {TestTable.Columns[i] : i \in 1..3} |->
     IF c = TestTable.Columns[3] THEN Word.float ELSE Word.int]

\* the pipeline's inputs: every batch size, parallelism, row count and
\* capacity within the bounds, on the test table
InitPipeline ==
  /\ TableStruct = TestTable
  /\ DataType = TestTypes
  /\ Indexes = <<[Columns |-> <<TestTable.Columns[1]>>, IsPrimary |-> TRUE]>>
  /\ ForeignKeys = <<>>
  /\ bindings = SelectAll(TestTable.Columns, EmptyRegistry)
  /\ calls = 1
  /\ overridden = {}
  /\ firstBindings = bindings
  /\ lastValue = [col |-> <<>>, val |-> [kind |-> "none"]]
  /\ Generators = {<<"a">>, <<"b">>}
  /\ DBType = "mysql"
  /\ BatchSize \in 1..MaxBatch
  /\ NumGoroutines \in 0..MaxWorkers
  /\ numRows \in 0..MaxRows
  /\ batchSize \in 0..MaxCap
  /\ InitRest

\* a database that may fail and a context that may be canceled
Init == InitPipeline /\ faultBudget = MaxFailures

\* domain/table-parser.go 103 (main): ctx := context.Background(), never
\* canceled, and a database that does not fail
InitQuiet == InitPipeline /\ faultBudget = 0

\* --------------------------------------------------------------- LoadData
\* data-loader.go 43-75: build the statement, make the channel, start the
\* producer goroutine and, NumGoroutines times, wg.Add(1) and go l.Load(...).
\* None of this waits for or reads anything another goroutine writes
LdStart ==
  /\ ~crashed /\ ldPc = "build"
  /\ columnNames' = EligibleColumns(TableStruct.Columns, Generators)
  /\ placeholders' = Placeholders(columnNames')
  /\ query' = BuildQuery(DBType, TableStruct.Name, columnNames', placeholders')
  /\ prodPc' = "loop"
  /\ started' = NumGoroutines
  /\ wg' = wg + NumGoroutines
  /\ wPc' = [w \in Workers |-> IF w <= NumGoroutines THEN "begin" ELSE "idle"]
  /\ ldPc' = "wait"
  /\ UNCHANGED <<received, config, ldErr, ctxDone, prodI, values, published, chVars,
                 cur, count, txId, txOpen, pending, commitLog, failedAt,
                 dbVars, crashed>>

\* data-loader.go 76-78: wg.Wait(); return nil
LdWait ==
  /\ ~crashed /\ ldPc = "wait"
  /\ WaitDone
  /\ ldPc' = "returned"
  /\ ldErr' = LoadDataResult
  /\ UNCHANGED <<received, config, columnNames, placeholders, query, started, wg,
                 ctxDone, prodVars, chVars, wVars, dbVars, crashed>>

\* a goroutine of the load is still running
Running ==
  \/ prodPc \in {"loop", "send"}
  \/ \E w \in Workers : wPc[w] \notin {"idle", "done"}

\* the caller's context is canceled while a goroutine that can see it is
\* running. LdStart does not read ctx, so a context canceled before the call
\* is the one canceled right after LdStart. data-loader.go 109, 141: a
\* transaction begun with BeginTx(ctx) is rolled back by database/sql when
\* ctx is canceled
Cancel ==
  /\ ~crashed /\ ~ctxDone
  /\ Running
  /\ ctxDone' = TRUE
  /\ txOpen' = [w \in Workers |-> {}]
  /\ pending' = [w \in Workers |-> <<>>]
  /\ UNCHANGED <<received, config, ldVars, prodVars, chVars, wPc, cur, count, txId,
                 commitLog, failedAt, dbVars, crashed>>

\* --------------------------------------------------------------- producer
\* data-loader.go 84-96, 100: the head of the loop. After the last row:
\* close(ch). Otherwise generate the row and look at ctx.Done(): return (the
\* channel stays open) when it is closed, go on to the send when it is not
ProdLoop ==
  /\ ~crashed /\ prodPc = "loop"
  /\ IF MoreRows(prodI)
     THEN /\ prodI' = prodI + 1
          /\ values' = GenerateValues(TableStruct.Columns, Generators)
          /\ prodPc' = IF ctxDone THEN "done" ELSE "send"
          /\ UNCHANGED chClosed
     ELSE /\ chClosed' = TRUE
          /\ prodPc' = "done"
          /\ UNCHANGED <<prodI, values>>
  /\ UNCHANGED <<received, config, ldVars, ctxDone, published, ch, wVars,
                 dbVars, crashed>>

\* data-loader.go 97: ch <- values, into the buffer
ProdSend ==
  /\ ~crashed /\ prodPc = "send"
  /\ CanSend(ch)
  /\ ch' = Append(ch, [id |-> prodI, vals |-> values])
  /\ published' = published + 1
  /\ prodPc' = "loop"
  /\ UNCHANGED <<received, config, ldVars, ctxDone, prodI, values, chClosed,
                 wVars, dbVars, crashed>>

\* ----------------------------------------------------------------- worker
RECURSIVE AddRows(_, _)
\* the table after a commit of the rows of one transaction
AddRows(bag, rows) ==
  IF Len(rows) = 0 THEN bag
  ELSE AddRows(bag (+) SetToBag({rows[1]}), Tail(rows))

\* data-loader.go 110: defer tx.Rollback() binds the transaction tx points to
\* when the defer statement runs, the first one
RollbackTarget(w) == 1

\* the outcome ok of worker w's database call named step
Called(w, step, ok) ==
  /\ nFail' = Failures(ok)
  /\ failedAt' = [failedAt EXCEPT ![w] = IF ok THEN @ ELSE step]

\* data-loader.go 109: tx, _ := l.DB.BeginTx(ctx, nil). The error is dropped:
\* on failure tx is nil and the worker goes on
WBegin(w) ==
  /\ ~crashed /\ wPc[w] = "begin"
  /\ \E ok \in DbOutcomes :
       /\ Called(w, "begin", ok)
       /\ txId' = [txId EXCEPT ![w] = IF ok THEN 1 ELSE 0]
       /\ txOpen' = [txOpen EXCEPT ![w] = IF ok THEN {1} ELSE {}]
  /\ wPc' = [wPc EXCEPT ![w] = "prepare"]
  /\ UNCHANGED <<received, config, ldVars, ctxDone, prodVars, chVars, cur,
                 count, pending, commitLog, executed, dropped, table, crashed>>

\* data-loader.go 110-117: defer tx.Rollback(); tx.PrepareContext(ctx, query).
\* With a nil tx the method calls dereference nil: the goroutine panics
WPrepare(w) ==
  /\ ~crashed /\ wPc[w] = "prepare"
  /\ IF txId[w] = 0
     THEN /\ crashed' = TRUE
          /\ wPc' = [wPc EXCEPT ![w] = "panic"]
          /\ UNCHANGED <<nFail, failedAt>>
     ELSE /\ \E ok \in DbOutcomes :
               /\ Called(w, "prepare", ok)
               /\ wPc' = [wPc EXCEPT ![w] = IF ok THEN "recv" ELSE "deferred"]
          /\ UNCHANGED crashed
  /\ UNCHANGED <<received, config, ldVars, ctxDone, prodVars, chVars, cur,
                 count, txId, txOpen, pending, commitLog, executed, dropped,
                 table>>

\* data-loader.go 122-127 with a row: the row is taken; when ctx.Done() is
\* closed the loop is left with the row in hand, else the row is executed
Take(w, row) ==
  /\ received' = [received EXCEPT ![w] = @ + 1]
  /\ IF ctxDone
     THEN /\ wPc' = [wPc EXCEPT ![w] = "final"]
          /\ dropped' = dropped \cup {row.id}
          /\ UNCHANGED cur
     ELSE /\ wPc' = [wPc EXCEPT ![w] = "exec"]
          /\ cur' = [cur EXCEPT ![w] = row]
          /\ UNCHANGED dropped

\* data-loader.go 122: for values := range valuesChan, from the buffer
WRecv(w) ==
  /\ ~crashed /\ wPc[w] = "recv"
  /\ Len(ch) > 0
  /\ Take(w, Head(ch))
  /\ ch' = AfterRecv(ch)
  /\ UNCHANGED <<config, ldVars, ctxDone, prodVars, chClosed,
                 count, txId, txOpen, pending, commitLog, failedAt, executed,
                 table, nFail, crashed>>

\* data-loader.go 97, 122: on a channel of capacity 0 the send and a receive
\* happen together
Rendezvous(w) ==
  /\ ~crashed /\ wPc[w] = "recv" /\ prodPc = "send"
  /\ batchSize = 0
  /\ Take(w, [id |-> prodI, vals |-> values])
  /\ published' = published + 1
  /\ prodPc' = "loop"
  /\ UNCHANGED <<config, ldVars, ctxDone, prodI, values, chVars,
                 count, txId, txOpen, pending, commitLog, failedAt, executed,
                 table, nFail, crashed>>

\* data-loader.go 122: the range loop ends on a closed and drained channel
WRecvClosed(w) ==
  /\ ~crashed /\ wPc[w] = "recv"
  /\ Len(ch) = 0 /\ chClosed
  /\ wPc' = [wPc EXCEPT ![w] = "final"]
  /\ UNCHANGED <<received, config, ldVars, ctxDone, prodVars, chVars, cur,
                 count, txId, txOpen, pending, commitLog, failedAt, dbVars,
                 crashed>>

\* data-loader.go 129-135: stmt.ExecContext(ctx, values...); count++
WExec(w) ==
  /\ ~crashed /\ wPc[w] = "exec"
  /\ \E ok \in DbOutcomes :
       /\ Called(w, "exec", ok)
       /\ IF ok
          THEN /\ pending' = [pending EXCEPT ![w] = Append(@, cur[w])]
               /\ executed' = executed (+) SetToBag({cur[w].id})
               /\ count' = [count EXCEPT ![w] = @ + 1]
               /\ wPc' = [wPc EXCEPT ![w] =
                             IF BatchReached(count[w] + 1) THEN "commit"
                             ELSE "recv"]
          ELSE /\ wPc' = [wPc EXCEPT ![w] = "deferred"]
               /\ UNCHANGED <<pending, executed, count>>
  /\ cur' = [cur EXCEPT ![w] = NoRow]
  /\ UNCHANGED <<received, config, ldVars, ctxDone, prodVars, chVars, txId,
                 txOpen, commitLog, dropped, table, crashed>>

\* tx.Commit() on the transaction tx points to: on success its rows are in
\* the table; in either case the transaction is over
DoCommit(w, step, ok) ==
  /\ Called(w, step, ok)
  /\ txOpen' = [txOpen EXCEPT ![w] = @ \ {txId[w]}]
  /\ pending' = [pending EXCEPT ![w] = <<>>]
  /\ IF ok
     THEN /\ table' = AddRows(table, pending[w])
          /\ commitLog' = [commitLog EXCEPT ![w] =
                Append(@, [rows |-> Len(pending[w]), final |-> step = "final"])]
     ELSE UNCHANGED <<table, commitLog>>

\* data-loader.go 136-139: the commit of a full batch
WCommit(w) ==
  /\ ~crashed /\ wPc[w] = "commit"
  /\ \E ok \in DbOutcomes :
       /\ DoCommit(w, "commit", ok)
       /\ wPc' = [wPc EXCEPT ![w] = IF ok THEN "rebegin" ELSE "deferred"]
  /\ UNCHANGED <<received, config, ldVars, ctxDone, prodVars, chVars, cur,
                 count, txId, executed, dropped, crashed>>

\* data-loader.go 141-145: tx, err = l.DB.BeginTx(ctx, nil)
WRebegin(w) ==
  /\ ~crashed /\ wPc[w] = "rebegin"
  /\ \E ok \in DbOutcomes :
       /\ Called(w, "rebegin", ok)
       /\ txId' = [txId EXCEPT ![w] = IF ok THEN @ + 1 ELSE 0]
       /\ txOpen' = [txOpen EXCEPT ![w] = IF ok THEN @ \cup {txId[w] + 1} ELSE @]
       /\ wPc' = [wPc EXCEPT ![w] = IF ok THEN "reprepare" ELSE "deferred"]
  /\ UNCHANGED <<received, config, ldVars, ctxDone, prodVars, chVars, cur,
                 count, pending, commitLog, executed, dropped, table, crashed>>

\* data-loader.go 147-153: stmt, err = tx.PrepareContext(ctx, query); count = 0
WReprepare(w) ==
  /\ ~crashed /\ wPc[w] = "reprepare"
  /\ \E ok \in DbOutcomes :
       /\ Called(w, "reprepare", ok)
       /\ count' = [count EXCEPT ![w] = IF ok THEN 0 ELSE @]
       /\ wPc' = [wPc EXCEPT ![w] = IF ok THEN "recv" ELSE "deferred"]
  /\ UNCHANGED <<received, config, ldVars, ctxDone, prodVars, chVars, cur,
                 txId, txOpen, pending, commitLog, executed, dropped, table,
                 crashed>>

\* data-loader.go 157-162: the commit after the loop; its error is logged
WFinal(w) ==
  /\ ~crashed /\ wPc[w] = "final"
  /\ IF FinalCommitGuard(count[w])
     THEN \E ok \in DbOutcomes : DoCommit(w, "final", ok)
     ELSE UNCHANGED <<nFail, failedAt, txOpen, pending, table, commitLog>>
  /\ wPc' = [wPc EXCEPT ![w] = "deferred"]
  /\ UNCHANGED <<received, config, ldVars, ctxDone, prodVars, chVars, cur,
                 count, txId, executed, dropped, crashed>>

\* data-loader.go 108, 110, 117: the deferred calls, last first: stmt.Close(),
\* tx.Rollback() on the transaction bound by defer, wg.Done()
WDeferred(w) ==
  /\ ~crashed /\ wPc[w] = "deferred"
  /\ txOpen' = [txOpen EXCEPT ![w] = @ \ {RollbackTarget(w)}]
  /\ pending' = [pending EXCEPT ![w] =
                   IF txId[w] = RollbackTarget(w) THEN <<>> ELSE @]
  /\ wg' = wg - 1
  /\ wPc' = [wPc EXCEPT ![w] = "done"]
  /\ UNCHANGED <<received, config, ldPc, columnNames, placeholders, query, started,
                 ldErr, ctxDone, prodVars, chVars, cur, count,
                 txId, commitLog, failedAt, dbVars, crashed>>

Worker(w) ==
  \/ WBegin(w) \/ WPrepare(w) \/ WRecv(w) \/ Rendezvous(w) \/ WRecvClosed(w)
  \/ WExec(w) \/ WCommit(w) \/ WRebegin(w) \/ WReprepare(w) \/ WFinal(w)
  \/ WDeferred(w)

Producer == ProdLoop \/ ProdSend

LoadData == LdStart \/ LdWait

Next == LoadData \/ Producer \/ (\E w \in Workers : Worker(w)) \/ Cancel

Spec == Init /\ [][Next]_vars

\* the goroutines of the program, without the cancellation
NextQuiet == LoadData \/ Producer \/ (\E w \in Workers : Worker(w))

SpecQuiet == InitQuiet /\ [][NextQuiet]_vars

\* the goroutines run: a goroutine that can take a step eventually takes one
FairSpec ==
  /\ SpecQuiet
  /\ WF_vars(LoadData)
  /\ WF_vars(Producer)
  /\ \A w \in Workers : WF_vars(Worker(w))

\* a database that may fail and a context that is never canceled
SpecFaulty == Init /\ [][NextQuiet]_vars

\* the same, the program running: while some goroutine can take a step, one
\* of them eventually does
FairSpecFaulty == SpecFaulty /\ WF_vars(NextQuiet)

\* ------------------------------------------- the statement and the rows
\* names a table or a column can have
Names == <<<<"a">>, <<"b">>, <<"q", "?">>, <<"c">>, <<"d">>, <<"e">>>>
NamePool == {Names[i] : i \in 1..MaxCols}

\* the sequences without repetition of at most MaxCols names of the pool
ColumnLists ==
  UNION {{c \in [1..n -> NamePool] : \A i, j \in 1..n : i # j => c[i] # c[j]}
         : n \in 0..MaxCols}

\* a table wide enough for two-digit placeholders
WideColumns ==
  <<<<"a">>, <<"b">>, <<"c">>, <<"d">>, <<"e">>, <<"f">>, <<"g">>, <<"h">>,
    <<"i">>, <<"j">>, <<"k">>>>

\* every table, registry and dialect within the bounds; the producer runs,
\* no worker is started
InitStatement ==
  /\ \/ /\ TableStruct \in [Name : {<<"t">>, <<"t", "?">>}, Columns : ColumnLists]
        /\ Generators \in SUBSET NamePool
     \/ /\ TableStruct = [Name |-> <<"t">>, Columns |-> WideColumns]
        /\ Generators = {WideColumns[i] : i \in 1..Len(WideColumns)}
  /\ DataType = [c \in {TableStruct.Columns[i] : i \in 1..Len(TableStruct.Columns)}
                   |-> <<>>]
  /\ Indexes = <<>>
  /\ ForeignKeys = <<>>
  /\ bindings = [c \in Generators |-> CustomGenerator]
  /\ calls = 0
  /\ overridden = Generators
  /\ firstBindings = EmptyRegistry
  /\ lastValue = [col |-> <<>>, val |-> [kind |-> "none"]]
  /\ DBType \in {"mysql", "postgres"}
  /\ BatchSize = 1
  /\ NumGoroutines = 0
  /\ faultBudget = 0
  /\ numRows \in 0..StmtRows
  /\ batchSize = StmtRows
  /\ InitRest

NextStatement == LdStart \/ ProdLoop \/ ProdSend

SpecStatement == InitStatement /\ [][NextStatement]_vars

\* ------------------------------------------------ the generator registry
ColA == <<"a">>
ColB == <<"b">>

\* the types of the second column
SecondTypes == {Word.int, Word.varchar}

PrimaryKey(cols) == [Columns |-> cols, IsPrimary |-> TRUE]
PlainIndex(cols) == [Columns |-> cols, IsPrimary |-> FALSE]
ForeignKey(cols) == [Columns |-> cols]

\* no index; a is the primary key; a and b are the primary key; a has an
\* index of its own and b is the primary key
IndexChoices ==
  {<<>>, <<PrimaryKey(<<ColA>>)>>, <<PrimaryKey(<<ColA, ColB>>)>>,
   <<PlainIndex(<<ColA>>), PrimaryKey(<<ColB>>)>>}

\* no foreign key; a is one; b and a together are one
ForeignKeyChoices == {<<>>, <<ForeignKey(<<ColA>>)>>, <<ForeignKey(<<ColB, ColA>>)>>}

NoValue == [col |-> <<>>, val |-> [kind |-> "none"]]

\* data-loader.go 26-40: NewTableDataLoader on a table of two columns, of
\* every declared type and key role within the pools: the registry is empty
InitGenerators ==
  /\ TableStruct = [Name |-> <<"t">>, Columns |-> <<ColA, ColB>>]
  /\ \E ta \in TypePool, tb \in SecondTypes :
       DataType = [c \in {ColA, ColB} |-> IF c = ColA THEN ta ELSE tb]
  /\ Indexes \in IndexChoices
  /\ ForeignKeys \in ForeignKeyChoices
  /\ Generators = {}
  /\ bindings = EmptyRegistry
  /\ calls = 0
  /\ overridden = {}
  /\ firstBindings = EmptyRegistry
  /\ lastValue = NoValue
  /\ DBType = "mysql"
  /\ BatchSize = 1
  /\ NumGoroutines = 0
  /\ faultBudget = 0
  /\ numRows = 0
  /\ batchSize = 0
  /\ InitRest

\* set_generators.go 16-234: SetDefaultGenerators, called before LoadData
\* (domain/table-parser.go 99)
SetDefaultGenerators ==
  /\ ~crashed /\ ldPc = "build"
  /\ calls < MaxCalls
  /\ bindings' = SelectAll(TableStruct.Columns, bindings)
  /\ Generators' = DOMAIN bindings'
  /\ calls' = calls + 1
  /\ firstBindings' = IF calls = 0 THEN bindings' ELSE firstBindings
  /\ UNCHANGED <<received, jsonVars, TableStruct, DBType, BatchSize, NumGoroutines, numRows,
                 batchSize, faultBudget, schemaVars, overridden, lastValue,
                 ldVars, ctxDone, prodVars, chVars, wVars, dbVars, crashed>>

\* set_generators.go 9-11: SetGenerator(columnName, generator) with a
\* generator of the caller's
SetGenerator(columnName) ==
  /\ ~crashed /\ ldPc = "build"
  /\ bindings' = Assign(bindings, columnName, CustomGenerator)
  /\ Generators' = DOMAIN bindings'
  /\ overridden' = overridden \cup {columnName}
  /\ UNCHANGED <<received, jsonVars, TableStruct, DBType, BatchSize, NumGoroutines, numRows,
                 batchSize, faultBudget, schemaVars, calls, firstBindings,
                 lastValue, ldVars, ctxDone, prodVars, chVars, wVars, dbVars,
                 crashed>>

\* data-loader.go 88: l.Generators[col.Name].GenerateValue(), one call of
\* the generator bound to the column; a panic ends the process
GenerateValue(columnName) ==
  /\ ~crashed /\ ldPc = "wait"
  /\ columnName \in DOMAIN bindings
  /\ \E v \in GenerateValueOf(bindings[columnName]) :
       /\ lastValue' = [col |-> columnName, val |-> v]
       /\ crashed' = (v.kind = "panic")
  /\ UNCHANGED <<received, jsonVars, TableStruct, Generators, DBType, BatchSize, NumGoroutines,
                 numRows, batchSize, faultBudget, schemaVars, bindings, calls,
                 overridden, firstBindings, ldVars, ctxDone, prodVars, chVars,
                 wVars, dbVars>>

TableColumns == {TableStruct.Columns[i] : i \in 1..Len(TableStruct.Columns)}

NextGenerators ==
  \/ SetDefaultGenerators
  \/ \E c \in TableColumns : SetGenerator(c)
  \/ LdStart
  \/ \E c \in TableColumns : GenerateValue(c)

SpecGenerators == InitGenerators /\ [][NextGenerators]_vars

\* ------------------------------------------------------ the JSON generator
\* The configurations of the generator bound to the column
MaxJsonDepth == 2
MaxJsonFields == 2
MaxJsonItems == 2

\* the generator whose GenerateValue is followed
JsonGen == bindings[ColA]

\* an object is built at every depth, the budget ignored
Exhausted_Never(depth, g) == FALSE

\* unnamed/part_001 197: depth >= g.Depth, the budget is used up
Exhausted(depth, g) == depth >= g.Depth

\* unnamed/part_001 217, 227: depth < g.Depth-1, a nested object may be built
DepthRemains(depth, g) == depth < g.Depth - 1

Produced(what, depth) == [what |-> what, depth |-> depth]

\* unnamed/part_001 196-202: the entry of generateObject(depth) with the
\* calls below it in `base`: a leaf string when the budget is used up, else
\* a new object of rand.IntN(g.Fields)+1 fields
EnterObject(base, depth) ==
  IF Exhausted(depth, JsonGen)
  THEN /\ jsStack' = base
       /\ jsLast' = Produced("leaf", depth)
  ELSE \E fields \in 1..JsonGen.Fields :
         /\ jsStack' = Append(base, [depth |-> depth, fields |-> fields, items |-> 0])
         /\ jsLast' = Produced("object", depth)

\* the calls in progress with the innermost one replaced
WithTop(frame) == [jsStack EXCEPT ![Len(jsStack)] = frame]

\* data-loader.go 26-40 and set_generators.go 9-11: a loader of one json
\* column whose registry holds NewJSONGenerator(fields, depth, arrayItems,
\* format), of every configuration within the bounds
InitJSON ==
  /\ TableStruct = [Name |-> <<"t">>, Columns |-> <<ColA>>]
  /\ DataType = [c \in {ColA} |-> Word.json]
  /\ Indexes = <<>>
  /\ ForeignKeys = <<>>
  /\ DBType \in {"mysql", "postgres"}
  /\ \E fields \in 1..MaxJsonFields, depth \in 0..MaxJsonDepth,
        arrayItems \in 1..MaxJsonItems :
       bindings = Assign(EmptyRegistry, ColA,
                         JSONGenerator(fields, depth, arrayItems, DBType))
  /\ Generators = {ColA}
  /\ calls = 0
  /\ overridden = {ColA}
  /\ firstBindings = EmptyRegistry
  /\ lastValue = NoValue
  /\ BatchSize = 1
  /\ NumGoroutines = 0
  /\ faultBudget = 0
  /\ numRows = 0
  /\ batchSize = 0
  /\ InitRest

\* what the steps of the JSON generator leave alone
jsonFrame ==
  <<TableStruct, Generators, DBType, BatchSize, NumGoroutines, numRows,
    batchSize, faultBudget, schemaVars, genVars, received, ldVars, ctxDone,
    prodVars, chVars, wVars, dbVars, crashed>>

\* unnamed/part_001 186-187: GenerateValue calls generateObject(0)
JSONGenerateValue ==
  /\ jsPc = "idle"
  /\ JsonGen.kind = "json"
  /\ EnterObject(<<>>, 0)
  /\ jsPc' = IF jsStack' = <<>> THEN "done" ELSE "run"
  /\ UNCHANGED jsonFrame

\* unnamed/part_001 204-221, 235-236: one iteration of the loop over the
\* fields up to the switch: a string, a number, a nested object or a leaf,
\* or the start of an array of rand.IntN(g.ArrayItems)+1 elements
generateObjectField ==
  /\ jsPc = "run" /\ jsStack # <<>>
  /\ LET top == jsStack[Len(jsStack)]
         rest == [top EXCEPT !.fields = top.fields - 1]
     IN /\ top.items = 0 /\ top.fields > 0
        /\ \E choice \in 0..3 :
             CASE choice = 0 ->
                    /\ jsStack' = WithTop(rest)
                    /\ jsLast' = Produced("string", top.depth)
               [] choice = 1 ->
                    /\ jsStack' = WithTop(rest)
                    /\ jsLast' = Produced("number", top.depth)
               [] choice = 2 ->
                    IF DepthRemains(top.depth, JsonGen)
                    THEN EnterObject(WithTop(rest), top.depth + 1)
                    ELSE /\ jsStack' = WithTop(rest)
                         /\ jsLast' = Produced("leaf", top.depth)
               [] choice = 3 ->
                    \E items \in 1..JsonGen.ArrayItems :
                      /\ jsStack' = WithTop([rest EXCEPT !.items = items])
                      /\ jsLast' = Produced("array", top.depth)
  /\ UNCHANGED <<jsPc, jsonFrame>>

\* unnamed/part_001 226-232: one element of the array: a nested object
\* when the budget allows and the coin says so, else an item string
generateObjectItem ==
  /\ jsPc = "run" /\ jsStack # <<>>
  /\ LET top == jsStack[Len(jsStack)]
         rest == [top EXCEPT !.items = top.items - 1]
     IN /\ top.items > 0
        /\ \E coin \in 0..1 :
             IF DepthRemains(top.depth, JsonGen) /\ coin = 0
             THEN EnterObject(WithTop(rest), top.depth + 1)
             ELSE /\ jsStack' = WithTop(rest)
                  /\ jsLast' = Produced("item", top.depth)
  /\ UNCHANGED <<jsPc, jsonFrame>>

\* unnamed/part_001 239, 188-192: the loop over the fields is over and the
\* object is returned, to the caller of GenerateValue when it is the
\* outermost one
generateObjectReturn ==
  /\ jsPc = "run" /\ jsStack # <<>>
  /\ LET top == jsStack[Len(jsStack)]
     IN /\ top.items = 0 /\ top.fields = 0
        /\ jsStack' = SubSeq(jsStack, 1, Len(jsStack) - 1)
        /\ jsLast' = Produced("return", top.depth)
  /\ jsPc' = IF jsStack' = <<>> THEN "done" ELSE "run"
  /\ UNCHANGED jsonFrame

NextJSON ==
  \/ JSONGenerateValue
  \/ generateObjectField
  \/ generateObjectItem
  \/ generateObjectReturn

SpecJSON == InitJSON /\ [][NextJSON]_vars

\* the call runs on: a goroutine that is not blocked takes its next step
FairSpecJSON == SpecJSON /\ WF_vars(NextJSON)

\* ------------------------------------------------------------- properties
Returned == ldPc = "returned"

\* no database call failed and the context was not canceled
NoFault == ~ctxDone /\ nFail = 0

\* the eligible columns, in table order
Eligible == SelectSeq(TableStruct.Columns, LAMBDA c : c \in Generators)

\* the numRows rows of one load, each once
AllRows ==
  SetToBag({[id |-> i, vals |-> [k \in 1..Len(Eligible) |-> [by |-> Eligible[k]]]]
            : i \in 1..numRows})

Ceil(n, b) == (n + b - 1) \div b

\* C1: with parallelism 1, no database failure and no cancellation, when
\* LoadData has returned the table holds exactly the numRows rows, each once.
C1_AllRowsCommitted ==
  (Returned /\ NumGoroutines = 1 /\ NoFault) => table = AllRows

C1_Witness ==
  /\ Returned /\ NumGoroutines = 1 /\ NoFault
  /\ numRows >= 2 /\ Len(commitLog[1]) >= 2
  /\ table = AllRows

C3_CancelStillReturns ==
  (ctxDone /\ published < numRows /\ NumGoroutines >= 1 /\ ~crashed)
    => /\ Returned \/ ENABLED Next
       /\ Returned => ldErr = "nil" /\ BagCardinality(table) < numRows

\* C4: the producer never stops without having closed the channel, and once
\* it has seen the cancellation it publishes nothing more.
C4_ProducerClosesChannel ==
  /\ prodPc = "done" => chClosed
  /\ prodPc = "done" => published <= prodI

\* C5: in the state where LoadData has returned, every worker it started has
\* finished, and it started NumGoroutines workers.
C5_ReturnAfterJoin ==
  Returned => /\ started = NumGoroutines
              /\ \A w \in 1..NumGoroutines : wPc[w] = "done"

C5_Witness ==
  /\ Returned /\ NumGoroutines >= 2 /\ published >= 2
  /\ \A w \in 1..NumGoroutines : Len(commitLog[w]) >= 1

\* C6: with parallelism >= 1, no cancellation and no database failure,
\* LoadData eventually returns, whatever numRows and the capacity: with a
\* context that is never canceled and a database that does not fail, every
\* run of the fairly scheduled goroutines reaches LoadData's return.
C6_EventuallyReturns == <>(NumGoroutines = 0 \/ Returned)

C6_Witness ==
  /\ Returned /\ NoFault /\ NumGoroutines >= 1
  /\ batchSize < numRows /\ published = numRows /\ chClosed

\* C7: whenever LoadData has returned, it returned nil, also when a worker
\* met a failed call.
C7_ReturnsNil == Returned => ldErr = "nil"

C7_Witness ==
  /\ Returned /\ nFail > 0
  /\ \E w \in Workers : failedAt[w] \in {"prepare", "exec", "commit", "rebegin"}

\* the places row i is in: the buffer, a worker's hand, the executed rows
Holders(i) ==
  Cardinality({k \in 1..Len(ch) : ch[k].id = i})
  + Cardinality({w \in Workers : cur[w].id = i})
  + CopiesIn(i, executed)

\* C8: with no failure and no cancellation, whatever the parallelism, every
\* published row is in exactly one place (the buffer, one worker's hand, or
\* executed once), and when LoadData has returned with parallelism >= 1 the
\* table holds exactly the numRows rows, each once.
C8_EachRowOnce ==
  NoFault =>
    /\ \A i \in 1..published : Holders(i) = 1
    /\ (Returned /\ NumGoroutines >= 1) => table = AllRows

C8_Witness ==
  /\ Returned /\ NoFault /\ NumGoroutines >= 2 /\ numRows >= 2
  /\ \A w \in 1..NumGoroutines : \E i \in 1..Len(commitLog[w]) :
       commitLog[w][i].rows > 0
  /\ table = AllRows

\* the placeholder list of k columns: "?" k times, or "$1", ..., "$k"
ExpectedPlaceholders(k) ==
  [i \in 1..k |-> IF DBType = "postgres" THEN <<"$">> \o Itoa(i) ELSE <<"?">>]

\* INSERT INTO <table> (c1, ..., ck) VALUES (<placeholders>)
ExpectedStatement ==
  INSERT_INTO \o TableStruct.Name \o <<" ", "(">> \o Join(Eligible, CommaSp)
  \o <<")", " ", "V", "A", "L", "U", "E", "S", " ", "(">>
  \o Join(ExpectedPlaceholders(Len(Eligible)), CommaSp) \o <<")">>

\* C9: for the eligible columns c1..ck the statement is exactly
\* INSERT INTO <table> (c1, ..., ck) VALUES (<placeholders>), the placeholders
\* being "?" k times for mysql and "$1, ..., $k" for postgres.
C9_StatementText == ldPc # "build" => query = ExpectedStatement

HasQuestionMark(name) == \E i \in 1..Len(name) : name[i] = "?"

\* the statement is the expected one whenever neither the table's name nor an
\* eligible column's name holds a "?"
StatementTextPlainNames ==
  (/\ ldPc # "build"
   /\ ~HasQuestionMark(TableStruct.Name)
   /\ \A i \in 1..Len(Eligible) : ~HasQuestionMark(Eligible[i]))
    => query = ExpectedStatement

\* C10: every row on the channel has as many values as the statement has
\* columns and placeholders, its i-th value comes from the generator of the
\* statement's i-th column, and a column without a generator is in neither.
C10_RowsMatchStatement ==
  \A k \in 1..Len(ch) :
    LET v == ch[k].vals
    IN /\ Len(v) = Len(columnNames)
       /\ Len(v) = Len(placeholders)
       /\ \A i \in 1..Len(v) :
            v[i].by = columnNames[i] /\ columnNames[i] \in Generators
       /\ \A j \in 1..Len(TableStruct.Columns) :
            TableStruct.Columns[j] \notin Generators =>
              \A i \in 1..Len(v) : /\ v[i].by # TableStruct.Columns[j]
                                   /\ columnNames[i] # TableStruct.Columns[j]

C10_Witness ==
  /\ Len(ch) >= 1
  /\ Len(ch[1].vals) >= 2
  /\ Len(ch[1].vals) < Len(TableStruct.Columns)
  /\ Len(columnNames) = Len(ch[1].vals)

\* the declared type names an integer family: its first token, in lower
\* case, is tinyint, smallint, mediumint, int, integer or bigint
IntegerFamily(declared) ==
  Split(ToLower(declared), " ")[1]
    \in {Word.tinyint, Word.smallint, Word.mediumint, Word.int, Word.integer, Word.bigint}

\* the column is the one member of a primary-key index
SolePrimaryKey(c) ==
  \E i \in 1..Len(Indexes) : Indexes[i].IsPrimary /\ Indexes[i].Columns = <<c>>

\* the column is a member of a primary key of several columns and the sole
\* member of none
CompositeKeyMember(c) ==
  /\ ~SolePrimaryKey(c)
  /\ \E i \in 1..Len(Indexes) :
       /\ Indexes[i].IsPrimary /\ Len(Indexes[i].Columns) > 1
       /\ \E k \in 1..Len(Indexes[i].Columns) : Indexes[i].Columns[k] = c

InStatement(c) == \E k \in 1..Len(columnNames) : columnNames[k] = c

\* SetDefaultGenerators ran on a loader no SetGenerator was called on
FreshDefaults == calls >= 1 /\ overridden = {}

\* C11: after SetDefaultGenerators on a fresh loader, a column that is the
\* sole member of a primary-key index and of an integer family has no entry
\* in the registry and is not in the statement's column list; a column of an
\* integer family that is only one member of a multi-column primary key has
\* an entry and is in the column list.
C11_AutoIncrementSkipped ==
  FreshDefaults =>
    \A c \in TableColumns :
      /\ (SolePrimaryKey(c) /\ IntegerFamily(DataType[c]))
           => /\ c \notin DOMAIN bindings /\ c \notin Generators
              /\ ldPc # "build" => ~InStatement(c)
      /\ (CompositeKeyMember(c) /\ IntegerFamily(DataType[c]))
           => /\ c \in DOMAIN bindings /\ c \in Generators
              /\ ldPc # "build" => InStatement(c)

C11_Witness ==
  /\ FreshDefaults /\ ldPc = "wait"
  /\ SolePrimaryKey(ColA) /\ DataType[ColA] = Word.bigint
  /\ columnNames = <<ColB>>
  /\ ColA \notin DOMAIN bindings

\* the column is a local column of a foreign key
ForeignKeyColumn(c) ==
  \E i \in 1..Len(ForeignKeys) :
    \E k \in 1..Len(ForeignKeys[i].Columns) : ForeignKeys[i].Columns[k] = c

\* the last GenerateValue call was made for column c
Generated(c) == lastValue.col = c

\* the last value is an integer between lo and hi
IntWithin(lo, hi) ==
  /\ lastValue.val.kind = "int"
  /\ I64LessEq(lo, lastValue.val.v) /\ I64LessEq(lastValue.val.v, hi)

\* the column's generator is the integer generator over lo..hi
BoundToInt(c, lo, hi) ==
  /\ c \in DOMAIN bindings
  /\ bindings[c].kind = "int"
  /\ bindings[c].Min = lo /\ bindings[c].Max = hi

\* C12: a foreign-key column of an integer family that is not the sole
\* integer primary key is bound to the integer generator over 1..1000,
\* whatever its family (bigint included), and every value generated for it
\* is in 1..1000; a foreign-key column that is the sole integer primary key
\* has no entry.
C12_ForeignKeyRange ==
  FreshDefaults =>
    \A c \in TableColumns :
      (ForeignKeyColumn(c) /\ IntegerFamily(DataType[c])) =>
        IF SolePrimaryKey(c) THEN c \notin DOMAIN bindings
        ELSE /\ BoundToInt(c, I64(1), I64(1000))
             /\ Generated(c) => IntWithin(I64(1), I64(1000))

C12_Witness ==
  /\ FreshDefaults /\ Generated(ColA)
  /\ ForeignKeyColumn(ColA) /\ ~SolePrimaryKey(ColA)
  /\ DataType[ColA] = Word.bigint
  /\ lastValue.val.kind = "int" /\ lastValue.val.v = I64(1000)

\* the range table: the inclusive bounds of a family, signed or unsigned
ListedRange(declared) ==
  LET family == Split(ToLower(declared), " ")[1]
      unsigned == Contains(ToLower(declared), Word.unsigned)
      min == CASE unsigned -> I64(0)
               [] family = Word.tinyint -> I64(-128)
               [] family = Word.smallint -> I64(-32768)
               [] family = Word.mediumint -> I64(-8388608)
               [] family \in {Word.int, Word.integer} -> I64Sub(I64(-2147483647), I64(1))
               [] OTHER -> MinInt64
      max == CASE family = Word.tinyint -> IF unsigned THEN I64(255) ELSE I64(127)
               [] family = Word.smallint -> IF unsigned THEN I64(65535) ELSE I64(32767)
               [] family = Word.mediumint ->
                    IF unsigned THEN I64(16777215) ELSE I64(8388607)
               [] family \in {Word.int, Word.integer} -> I64(2147483647)
               [] OTHER -> MaxInt64
  IN [min |-> min, max |-> max]

\* a column the type dispatch decides: no sole primary key, no foreign key
PlainColumn(c) == ~SolePrimaryKey(c) /\ ~ForeignKeyColumn(c)

\* the column's generator has the listed bounds and the value generated for
\* it, if one was, is an integer within them
WithinListedRange(c) ==
  LET range == ListedRange(DataType[c])
  IN /\ BoundToInt(c, range.min, range.max)
     /\ Generated(c) => IntWithin(range.min, range.max)

\* C13: for every integer family, signed and unsigned, the integer generator
\* SetDefaultGenerators selects has exactly the listed bounds, and every
\* GenerateValue call returns a value within them: no call fails, the bigint
\* bounds included.
C13_IntegerRanges ==
  FreshDefaults =>
    \A c \in TableColumns :
      (PlainColumn(c) /\ IntegerFamily(DataType[c])) => WithinListedRange(c)

\* the same for the families below bigint, whose range width fits 64 bits
IntegerRangesBelowBigint ==
  FreshDefaults =>
    \A c \in TableColumns :
      (/\ PlainColumn(c) /\ IntegerFamily(DataType[c])
       /\ Split(ToLower(DataType[c]), " ")[1] # Word.bigint) => WithinListedRange(c)

\* C14: a second SetDefaultGenerators, on the registry the first one left,
\* leaves the same registry: the same bound names, and for each the same
\* generator kind and configuration.
C14_SelectionIdempotent ==
  (calls >= 2 /\ overridden = {}) =>
    /\ DOMAIN bindings = DOMAIN firstBindings
    /\ \A c \in DOMAIN bindings : bindings[c] = firstBindings[c]
    /\ Generators = DOMAIN firstBindings

C14_Witness ==
  /\ calls >= 2 /\ overridden = {}
  /\ DOMAIN bindings = {ColA, ColB}
  /\ bindings[ColA].kind = "enum"
  /\ bindings = firstBindings

\* C15: the generator SetGenerator installed for a column is the one bound
\* to it from then on, also after a later SetDefaultGenerators, and is the
\* one the load uses: the column is in the statement and its values come
\* from the custom generator.
C15_OverrideKept ==
  \A c \in overridden :
    /\ c \in DOMAIN bindings
    /\ bindings[c].kind = "custom"
    /\ ldPc # "build" => InStatement(c)
    /\ Generated(c) => lastValue.val.kind = "custom"

\* an override made after the last SetDefaultGenerators is kept
OverrideAfterDefaultsKept ==
  [][\A c \in TableColumns :
       SetGenerator(c) => bindings'[c].kind = "custom"]_vars

t_enum_abc ==
  <<"e", "n", "u", "m", "(", "'", "a", "'", ",", "'", "b", "'", ",", "'", "c", "'", ")">>
t_enum_sp_abc ==
  <<"e", "n", "u", "m", " ", "(", "'", "a", "'", ",", "'", "b", "'", ",", "'", "c",
    "'", ")">>
abc == <<<<"a">>, <<"b">>, <<"c">>>>

\* the column is bound to the enum generator over a, b, c and the value
\* generated for it, if one was, is one of the three
EnumOverAbc(c) ==
  /\ c \in DOMAIN bindings
  /\ bindings[c].kind = "enum"
  /\ bindings[c].Values = abc
  /\ Generated(c) =>
       /\ lastValue.val.kind = "text"
       /\ \E i \in 1..3 : lastValue.val.s = abc[i]

\* C16: a column that is neither a primary key nor a foreign key and whose
\* declared type is enum('a','b','c') is bound to an enum generator whose
\* values are a, b, c in that order, and every value generated for it is one
\* of the three; the two placeholder values are used only for a type no
\* value can be parsed from.
C16_EnumValues ==
  FreshDefaults =>
    \A c \in TableColumns :
      /\ (PlainColumn(c) /\ DataType[c] = t_enum_abc) => EnumOverAbc(c)
      /\ (/\ c \in DOMAIN bindings /\ bindings[c].kind = "enum"
          /\ bindings[c].Values = <<Word.enum_value1, Word.enum_value2>>)
           => DataType[c] \notin {t_enum_abc, t_enum_sp_abc}

\* the values are parsed when a space separates enum from the list
EnumAfterSpaceParsed ==
  FreshDefaults =>
    \A c \in TableColumns :
      (PlainColumn(c) /\ DataType[c] = t_enum_sp_abc) => EnumOverAbc(c)

\* the commits of worker w that were made for a full batch
BatchCommits(w) == SelectSeq(commitLog[w], LAMBDA e : ~e.final)

\* C17 as stated: with parallelism 1 and no failure, LoadData(numRows, B)
\* with B >= 1 commits after every B executed rows, B being the batchSize
\* argument, whatever batch size the loader was constructed with.
C17_ArgumentIsCommitSize ==
  (NumGoroutines = 1 /\ NoFault /\ batchSize >= 1) =>
    /\ \A i \in 1..Len(BatchCommits(1)) : BatchCommits(1)[i].rows = batchSize
    /\ Returned => Len(BatchCommits(1)) = numRows \div batchSize

\* C17 as amended: with parallelism 1 and no failure, the worker commits
\* after every l.BatchSize executed rows, l.BatchSize being the batch size
\* the loader was constructed with (or its field was set to), whatever the
\* batchSize argument of LoadData, which is the capacity of the channel.
C17_LoaderBatchIsCommitSize ==
  (NumGoroutines = 1 /\ NoFault) =>
    /\ \A i \in 1..Len(BatchCommits(1)) : BatchCommits(1)[i].rows = BatchSize
    /\ Returned => Len(BatchCommits(1)) = numRows \div BatchSize

C17_Witness ==
  /\ Returned /\ NumGoroutines = 1 /\ NoFault
  /\ batchSize >= 1 /\ batchSize # BatchSize
  /\ Len(BatchCommits(1)) = 1 /\ BatchCommits(1)[1].rows = BatchSize

\* C18: the count of a worker that waits for the next row is in
\* 0..BatchSize-1 and is the number of rows executed in its open
\* transaction, so it is 0 after every commit; no commit holds more than
\* BatchSize rows and every commit but the final one holds exactly BatchSize.
C18_CountWithinBatch ==
  \A w \in Workers :
    /\ wPc[w] = "recv" => count[w] \in 0..(BatchSize - 1)
    /\ (wPc[w] = "recv" /\ ~ctxDone) => count[w] = Len(pending[w])
    /\ \A i \in 1..Len(commitLog[w]) :
         /\ commitLog[w][i].rows <= BatchSize
         /\ ~commitLog[w][i].final => commitLog[w][i].rows = BatchSize

C18_Witness ==
  \E w \in Workers :
    /\ wPc[w] = "recv" /\ count[w] = 0 /\ BatchSize >= 2
    /\ Len(commitLog[w]) >= 1 /\ commitLog[w][1].rows = BatchSize
    /\ NumGoroutines >= 2

\* worker w has returned after a step other than the first BeginTx failed
Aborted(w) ==
  /\ wPc[w] = "done"
  /\ failedAt[w] \in {"prepare", "exec", "commit", "rebegin", "reprepare"}

\* C20: when a worker aborts on a failure its deferred rollback ends the
\* transaction that is open at that moment, also one opened after an earlier
\* batch commit; after a worker has exited, normally or by a failure, none of
\* its transactions is open.
C20_NoTransactionLeftOpen ==
  \A w \in Workers :
    /\ wPc[w] = "done" => txOpen[w] = {}
    /\ Aborted(w) => pending[w] = <<>>

\* a worker that exits in its first transaction leaves none open
FirstTransactionClosed ==
  \A w \in Workers : (wPc[w] = "done" /\ txId[w] <= 1) => txOpen[w] = {}

\* a step of worker w after its first BeginTx failed
Failed(w) == failedAt[w] \notin {"none", "begin"}

RECURSIVE RowsIn(_)
\* the rows of a sequence of commits
RowsIn(log) == IF Len(log) = 0 THEN 0 ELSE log[1].rows + RowsIn(Tail(log))

\* a failed worker is at its deferred calls or has returned
FailedWorkerStops ==
  \A w \in Workers : Failed(w) => wPc[w] \in {"deferred", "done"}

\* with two or more workers, one of which failed, at LoadData's return the
\* channel is closed and empty, every row is in the table at most once, and
\* each other worker has committed every row it took
OthersFinishTheLoad ==
  \A f \in Workers :
    (/\ Returned /\ NumGoroutines >= 2 /\ ~ctxDone
     /\ Failed(f) /\ \A w \in Workers \ {f} : ~Failed(w))
      => /\ chClosed /\ ch = <<>> /\ published = numRows
         /\ \A w \in (1..NumGoroutines) \ {f} :
              /\ wPc[w] = "done"
              /\ RowsIn(commitLog[w]) = received[w]
         /\ BagCardinality(table)
              >= numRows - received[f]
         /\ \A row \in BagToSet(table) : CopiesIn(row, table) = 1

\* C19: a worker whose prepare, execute or commit failed makes no further
\* execute or commit and does not retry; the other workers go on taking rows
\* until the channel is closed: with two or more workers and one failed
\* worker, every row the failed worker did not take is committed by the
\* others, and LoadData returns.
C19_OthersCarryOn ==
  /\ [](FailedWorkerStops /\ OthersFinishTheLoad)
  /\ <>(NumGoroutines < 2 \/ Returned \/ crashed)

C19_Witness ==
  /\ Returned /\ NumGoroutines = 2 /\ ~ctxDone
  /\ \E f \in Workers :
       /\ failedAt[f] \in {"prepare", "exec", "commit"}
       /\ \E w \in Workers \ {f} : received[w] >= 1 /\ RowsIn(commitLog[w]) >= 1
  /\ BagCardinality(table) >= 1

\* worker w's last successful commit was the final one
FinalCommitDone(w) ==
  Len(commitLog[w]) >= 1 /\ commitLog[w][Len(commitLog[w])].final

\* worker w is past its first PrepareContext: it is in its loop over the
\* channel or beyond
MidStream(w) ==
  /\ wPc[w] \notin {"idle", "begin", "prepare", "panic"}
  /\ failedAt[w] \notin {"begin", "prepare"}

\* C21: after a cancellation (no database failure of another kind, no panic)
\* every worker that was in its loop ends with a successful final commit, so
\* that once the workers are done every executed row is in the table, none
\* rolled back; and no such worker is left short of its final commit with
\* nothing able to move.
C21_CancelCommitsProgress ==
  (ctxDone /\ nFail = 0 /\ ~crashed) =>
    /\ \A w \in 1..NumGoroutines :
         (MidStream(w) /\ wPc[w] = "done") => FinalCommitDone(w)
    /\ (\A w \in 1..NumGoroutines : wPc[w] = "done")
         => BagCardinality(table) = BagCardinality(executed)
    /\ (\E w \in 1..NumGoroutines : MidStream(w) /\ wPc[w] # "done")
         => ENABLED Next

\* once the context is canceled no statement is executed
CancelStopsExecution == [][ctxDone => executed' = executed]_vars

\* ---- C22
\* the calls of generateObject in progress are at depths 0, 1, 2, ... and
\* each is below the configured Depth
WithinDepth ==
  \A k \in 1..Len(jsStack) :
    jsStack[k].depth = k - 1 /\ jsStack[k].depth < JsonGen.Depth

\* C22: for every configuration with Depth >= 0, Fields >= 1 and
\* ArrayItems >= 1 and every sequence of random choices, the recursion of
\* generateObject never goes deeper than Depth, an object is only built
\* while depth budget remains, with the budget used up only a leaf string
\* is emitted, and the call of GenerateValue terminates.
C22_JSONTerminates ==
  /\ [](JsonGen.kind = "json" =>
          /\ WithinDepth
          /\ Len(jsStack) <= JsonGen.Depth
          /\ (jsLast.what = "object" => jsLast.depth < JsonGen.Depth)
          /\ (jsLast.what # "none" /\ jsLast.depth >= JsonGen.Depth
                => jsLast.what = "leaf"))
  /\ <>(jsPc = "done")

\* a call that has nested objects down to the last depth the budget allows
C22_Witness ==
  /\ JsonGen.kind = "json" /\ JsonGen.Depth >= 2
  /\ jsPc = "run"
  /\ Len(jsStack) = JsonGen.Depth
  /\ jsStack[Len(jsStack)].items > 0

\* ---- C23
\* the column's generator is a binary generator
BoundToBinary(c) == c \in DOMAIN bindings /\ bindings[c].kind = "binary"

\* C23: a binary generator configured with length L returns on every call
\* a byte sequence of exactly L bytes.
C23_BinaryLength ==
  \A c \in TableColumns :
    (BoundToBinary(c) /\ Generated(c)) =>
      lastValue.val.kind = "bytes" /\ lastValue.val.Length = bindings[c].Length

\* the part that holds: blob, binary and bytea columns that are no key are
\* bound to a binary generator of length 100, 1000, 10000 or 500 by size
\* hint, and what a call returns is a byte sequence
BinaryLengthConfigured ==
  FreshDefaults =>
    \A c \in TableColumns :
      (PlainColumn(c) /\ Split(ToLower(DataType[c]), " ")[1]
                           \in {Word.blob, Word.binary, Word.bytea}) =>
        /\ BoundToBinary(c)
        /\ bindings[c].Length =
             SizeHint(ToLower(DataType[c]), 100, 1000, 10000, 500)
        /\ Generated(c) => lastValue.val.kind = "bytes"

\* ---- C24
\* the producer is at its send and the send can complete: the buffer has
\* room, or a worker is at its receive on the unbuffered channel
SendCanComplete ==
  ENABLED ProdSend \/ \E w \in Workers : ENABLED Rendezvous(w)

\* C24: the producer started by LoadData always terminates; whenever
\* LoadData has returned, the producer has closed the channel, has stopped
\* on cancellation, or can still go on: it is never left blocked on a send
\* that nothing will complete.
C24_ProducerTerminates ==
  (Returned /\ ~crashed /\ prodPc = "send") => SendCanComplete

\* ---- C25
\* C25: a worker whose first BeginTx failed aborts like for any other failed
\* step: it makes no call on the missing transaction, no goroutine panics,
\* it signals completion, and LoadData can still return.
C25_FailedBeginAborts ==
  \A w \in 1..NumGoroutines :
    failedAt[w] = "begin" =>
      /\ wPc[w] \in {"prepare", "deferred", "done"}
      /\ ~crashed
      /\ (\A v \in 1..NumGoroutines : wPc[v] = "done") => ENABLED LdWait \/ Returned

\* ---- C26
\* C26: after SetDefaultGenerators on a fresh loader, every column except a
\* sole-member integer primary key has a binding in the registry and is in
\* the statement's column list, a foreign-key column of a type such as uuid
\* or date and a column of type time included.
C26_EveryColumnBound ==
  FreshDefaults =>
    \A c \in TableColumns :
      ~(SolePrimaryKey(c) /\ IntegerFamily(DataType[c])) =>
        /\ c \in DOMAIN bindings /\ c \in Generators
        /\ ldPc # "build" => InStatement(c)

\* the part that holds: a column that is neither a foreign key nor the sole
\* member of a primary key has a binding, a column of type time among them
PlainColumnsBound ==
  FreshDefaults =>
    \A c \in TableColumns :
      PlainColumn(c) =>
        /\ c \in DOMAIN bindings
        /\ ldPc # "build" => InStatement(c)

\* ---- C27
\* C27: every row a worker takes from the channel is handed to ExecContext
\* before the worker takes another row or stops; no row is taken and then
\* discarded, cancellation included.
C27_NoRowDiscarded ==
  /\ dropped = {}
  /\ \A w \in 1..NumGoroutines : wPc[w] = "exec" => cur[w] # NoRow

\* the part that holds: while the context is not canceled no row is discarded
NoRowDiscardedUncanceled == ~ctxDone => C27_NoRowDiscarded

====
